---- MODULE Spec2Model ----
(***************************************************************************)
(* Model of the multiplexer of trading-lab: the KellyMultiplexer engine    *)
(* (registry_, client_portfolios_, config_, state_mutex_), the input       *)
(* thread (ZmqInputListener::listen_loop + the callback wired in main) and *)
(* the admin thread (ZmqAdminListener::listen_loop).                       *)
(*                                                                         *)
(* Doubles are modelled as exact rationals [n, d] (d > 0, lowest terms);   *)
(* every value the model feeds to the engine is a short decimal, and the   *)
(* comparisons of the code (sigma > 1e-6, scalar > 2.0, scalar < -2.0)     *)
(* are made on the exact values.                                           *)
(***************************************************************************)
EXTENDS Integers, Sequences, FiniteSets, TLC

VARIABLES
    registry_,          \* KellyMultiplexer::registry_.clients : id -> [mu, sigma]
    client_portfolios_, \* KellyMultiplexer::client_portfolios_ : id -> TargetPortfolio
    config_,            \* KellyMultiplexer::config_ : [kelly_fraction]
    state_mutex_,       \* owner of KellyMultiplexer::state_mutex_ ("free", "input", "admin")
    pcIn,               \* position of the input thread
    p,                  \* the TargetPortfolio the input thread received (NoPortfolio if none)
    aggregated,         \* the value on_portfolio_received returned to the callback
    used,               \* per client iterated by the recompute: params found, scalar applied
    written,            \* registry and store as they were right after line 29 wrote p
    pcAd,               \* position of the admin thread
    req,                \* the engine call the admin thread dispatched, with its arguments (NoReq if none)
    response,           \* the reply the admin thread is about to send (NoResponse if none)
    j_req,              \* the request the admin thread received, as parsed (NoRequest if none)
    engine_calls,       \* the engine calls the admin thread has made for j_req, in order
    purged,             \* ids whose stored portfolio a completed remove_client erased, nothing stored since
    autoRegistered,     \* ids the recompute auto-registered, no admin change to them since
    ackedRemoved,       \* purged ids whose REMOVE has been answered
    ackedAdded,         \* id -> the (mu, sigma) of its answered ADD/UPDATE, no admin change to id since
    last,               \* the previous on_portfolio_received call, NoCall after an admin change
    latest,             \* id -> the portfolio last passed to on_portfolio_received, not removed since
    dropped,            \* instruments the portfolio replaced by the call in progress had and p has not
    pickup,             \* id -> the (mu, sigma) of an add_client that completed while id was stored,
                        \* no admin change to id since; stage "pending" until the next recompute,
                        \* "picked" from that recompute to the end of its call
    lastAdmin,          \* the previous engine call if it was add_client or remove_client
    in_calls,           \* on_portfolio_received calls the callback made for the last message received
    outbox,             \* what the callback handed to output->publish for the last message received
    in_last,            \* what became of the last recv of the input thread: "none" before the first,
                        \* "parsed", "dropped" (json::parse or from_json threw), "zmq_error"
    ad_owed,            \* requests the admin REP socket has handed out and got no reply for
    weight_map,         \* a std::map<Instrument, double>: its entries in key order (SpecInstrument)
    applied,            \* the <<instrument, weight>> pairs added into weight_map so far
    last_prices_,       \* DummyStrategy::last_prices_ : instrument id -> price (SpecStrategy)
    batch,              \* the batch the last on_market_update call was given
    allocation          \* what the last on_market_update call returned

vars == <<registry_, client_portfolios_, config_, state_mutex_, pcIn, p,
          aggregated, used, written, pcAd, req, response, purged,
          autoRegistered, ackedRemoved, ackedAdded, last, j_req,
          engine_calls, latest, dropped, pickup, lastAdmin, in_calls,
          outbox, in_last, ad_owed, weight_map, applied, last_prices_,
          batch, allocation>>

engineVars == <<registry_, client_portfolios_, config_>>
inputVars  == <<pcIn, p, aggregated, used, written>>
adminVars  == <<pcAd, req, response, j_req, engine_calls>>
obsVars    == <<purged, autoRegistered, ackedRemoved, ackedAdded>>
histVars   == <<latest, dropped, pickup, lastAdmin>>
wireVars   == <<in_calls, outbox, in_last, ad_owed>>
stratVars  == <<last_prices_, batch, allocation>>
instVars   == <<weight_map, applied, stratVars>>

-----------------------------------------------------------------------------
(* Exact arithmetic standing for double *)

RECURSIVE GCD(_, _)
GCD(a, b) == IF b = 0 THEN a ELSE GCD(b, a % b)

Abs(x) == IF x < 0 THEN -x ELSE x

\* n/d divided through by g, the sign carried by the numerator
Reduce(n, d, g) ==
    IF d < 0 THEN [n |-> (-n) \div g, d |-> (-d) \div g]
    ELSE [n |-> n \div g, d |-> d \div g]

\* the rational n/d in lowest terms with a positive denominator (d # 0)
R(n, d) == Reduce(n, d, GCD(Abs(n), Abs(d)))

Zero == [n |-> 0, d |-> 1]
RAdd(a, b) == R(a.n * b.d + b.n * a.d, a.d * b.d)
RMul(a, b) == R(a.n * b.n, a.d * b.d)
RDiv(a, b) == R(a.n * b.d, a.d * b.n)
RGt(a, b)  == a.n * b.d > b.n * a.d
RLt(a, b)  == a.n * b.d < b.n * a.d
RLe(a, b)  == ~RGt(a, b)

-----------------------------------------------------------------------------
(* Maps (std::map) as functions with a finite domain *)

EmptyMap == [k \in {} |-> Zero]
Put(m, k, v) == [x \in DOMAIN m \cup {k} |-> IF x = k THEN v ELSE m[x]]

\* the empty std::unique_ptr<trading::Allocation>
nullptr == [source |-> "nullptr", id |-> 0, positions |-> <<>>]
Erase(m, k) == [x \in DOMAIN m \ {k} |-> m[x]]

-----------------------------------------------------------------------------
(* Values *)

\* client ids in std::string order, the iteration order of std::map
ClientOrder == <<"StratA", "StratB", "X">>
Clients == {ClientOrder[k] : k \in 1..Len(ClientOrder)}

AAPL == [type |-> "Stock", symbol |-> "AAPL", exchange |-> "NASDAQ"]
MSFT == [type |-> "Stock", symbol |-> "MSFT", exchange |-> "NASDAQ"]

StrategyParams(mu, sigma) == [mu |-> mu, sigma |-> sigma]

\* main.cpp: registry.clients["StratA"], registry.clients["StratB"]
ParamsStratA == StrategyParams(R(5, 100), R(10, 100))
ParamsStratB == StrategyParams(R(10, 100), R(20, 100))
\* a default with the volatility of StratA
DefaultParams_m == [mu |-> R(5, 100), sigma |-> R(10, 100)]

\* recalculate_and_publish: default_params
DefaultParams == StrategyParams(R(5, 100), R(20, 100))

TargetPortfolio(id, weights) == [multiplexer_id |-> id, target_weights |-> weights]
\* a default-constructed TargetPortfolio, the "return {}" of the recompute
EmptyPortfolio == TargetPortfolio("", EmptyMap)
AggregatedId == "KellyMux_Aggregated"

NoPortfolio == [multiplexer_id |-> "none"]
NoReq == [call |-> "none"]
NoSnapshot == [taken |-> FALSE]
NoRequest == [received |-> FALSE]
NoResponse == [status |-> "none"]
NoAdmin == [call |-> "none"]

-----------------------------------------------------------------------------
(* KellyMultiplexer: the bodies of the three public operations *)

\* the guard on the magnitude: std::abs(params.sigma) > 1e-6
SigmaAboveGuard_m(sigma) ==
    RGt([n |-> Abs(sigma.n), d |-> sigma.d], [n |-> 1, d |-> 1000000])

\* line 63: params.sigma > 1e-6
SigmaAboveGuard(sigma) == RGt(sigma, [n |-> 1, d |-> 1000000])

\* lines 62-65: raw_kelly, and whether the division was performed
RawKelly(params) ==
    IF SigmaAboveGuard(params.sigma)
    THEN [val |-> RDiv(params.mu, RMul(params.sigma, params.sigma)), div |-> TRUE]
    ELSE [val |-> Zero, div |-> FALSE]

\* the clamp without its lower bound (lines 73-74 missing)
Clamp_m(scalar) ==
    IF RGt(scalar, [n |-> 2, d |-> 1]) THEN [n |-> 2, d |-> 1] ELSE scalar

\* lines 71-74: the safety clamp
Clamp(scalar) ==
    IF RGt(scalar, [n |-> 2, d |-> 1]) THEN [n |-> 2, d |-> 1]
    ELSE IF RLt(scalar, [n |-> -2, d |-> 1]) THEN [n |-> -2, d |-> 1]
    ELSE scalar

\* lines 67-74: the global scalar applied to raw_kelly, then the clamp
ScaleAndClamp(raw_kelly, kelly_fraction) == Clamp(RMul(kelly_fraction, raw_kelly))

\* line 81: final_weight
FinalWeight(heavy_weight, scalar) == RMul(heavy_weight, scalar)

\* the inner loop with = in place of += on line 82
ScaleAndAdd_m(weights, target_weights, scalar) ==
    [i \in DOMAIN weights \cup DOMAIN target_weights |->
        IF i \in DOMAIN target_weights
        THEN RMul(target_weights[i], scalar) ELSE weights[i]]

\* an inner loop that skips the weights whose scaled value is zero
ScaleAndAdd_z(weights, target_weights, scalar) ==
    [i \in DOMAIN weights \cup
            { k \in DOMAIN target_weights :
                  FinalWeight(target_weights[k], scalar) # Zero } |->
        RAdd(IF i \in DOMAIN weights THEN weights[i] ELSE Zero,
             IF i \in DOMAIN target_weights
             THEN FinalWeight(target_weights[i], scalar) ELSE Zero)]

\* an inner loop that keeps the first contribution to an instrument
ScaleAndAdd_first(weights, target_weights, scalar) ==
    [i \in DOMAIN weights \cup DOMAIN target_weights |->
        IF i \in DOMAIN weights THEN weights[i]
        ELSE FinalWeight(target_weights[i], scalar)]

\* lines 77-83: aggregated.target_weights[instrument] += final_weight
\* (operator[] value-initialises a missing key to 0.0)
ScaleAndAdd(weights, target_weights, scalar) ==
    [i \in DOMAIN weights \cup DOMAIN target_weights |->
        RAdd(IF i \in DOMAIN weights THEN weights[i] ELSE Zero,
             IF i \in DOMAIN target_weights
             THEN FinalWeight(target_weights[i], scalar) ELSE Zero)]

\* a lookup that writes the default parameters whether or not it missed
LookupOrRegister_m(reg, client_id) == Put(reg, client_id, DefaultParams)

\* lines 48-57: look up the client's config, auto-registering it on a miss
LookupOrRegister(reg, client_id) ==
    IF client_id \in DOMAIN reg THEN reg ELSE Put(reg, client_id, DefaultParams)

\* the keys of a map over client ids, in iteration order
KeysInOrder(m) == SelectSeq(ClientOrder, LAMBDA c : c \in DOMAIN m)

\* lines 46-84: the loop over client_portfolios_, from the given accumulator
RECURSIVE RecalcLoop(_, _, _, _)

\* lines 76-84: the inner loop of one iteration, once scalar is known
RecalcScale(rest, store, kelly_fraction, acc, client_id, reg, params, raw, scalar) ==
    RecalcLoop(rest, store, kelly_fraction,
        [registry |-> reg,
         weights  |-> ScaleAndAdd(acc.weights,
                          store[client_id].target_weights, scalar),
         used     |-> Put(acc.used, client_id,
                          [params |-> params, scalar |-> scalar, div |-> raw.div])])

\* lines 67-84: the rest of one iteration, once raw_kelly is known
RecalcStep(rest, store, kelly_fraction, acc, client_id, reg, params, raw) ==
    RecalcScale(rest, store, kelly_fraction, acc, client_id, reg, params, raw,
                ScaleAndClamp(raw.val, kelly_fraction))

RecalcLoop(keys, store, kelly_fraction, acc) ==
    IF keys = <<>> THEN acc
    ELSE LET client_id == Head(keys)
             reg       == LookupOrRegister(acc.registry, client_id)
             params    == reg[client_id]
         IN  RecalcStep(Tail(keys), store, kelly_fraction, acc, client_id, reg,
                        params, RawKelly(params))

\* a recompute that also reports "nothing to publish" when no stored
\* portfolio holds a weight
Recalculate_m(store, reg, kelly_fraction) ==
    IF \A c \in DOMAIN store : DOMAIN store[c].target_weights = {}
    THEN [registry |-> reg, result |-> EmptyPortfolio, used |-> EmptyMap]
    ELSE LET out == RecalcLoop(KeysInOrder(store), store, kelly_fraction,
                        [registry |-> reg, weights |-> EmptyMap, used |-> EmptyMap])
         IN  [registry |-> out.registry,
              result   |-> TargetPortfolio(AggregatedId, out.weights),
              used     |-> out.used]

\* lines 35-87: recalculate_and_publish on (store, reg): the registry it
\* leaves, the portfolio it returns, and what it used for each client
Recalculate(store, reg, kelly_fraction) ==
    IF DOMAIN store = {}
    THEN [registry |-> reg, result |-> EmptyPortfolio, used |-> EmptyMap]
    ELSE LET out == RecalcLoop(KeysInOrder(store), store, kelly_fraction,
                        [registry |-> reg, weights |-> EmptyMap, used |-> EmptyMap])
         IN  [registry |-> out.registry,
              result   |-> TargetPortfolio(AggregatedId, out.weights),
              used     |-> out.used]

\* the new weights merged into the stored ones instead of replacing them
StoreWrite_m(store, portfolio) ==
    IF portfolio.multiplexer_id \in DOMAIN store
    THEN Put(store, portfolio.multiplexer_id,
             [multiplexer_id |-> portfolio.multiplexer_id,
              target_weights |->
                  ScaleAndAdd(store[portfolio.multiplexer_id].target_weights,
                              portfolio.target_weights, [n |-> 1, d |-> 1])])
    ELSE Put(store, portfolio.multiplexer_id, portfolio)

\* std::map::insert semantics: the first portfolio of a client is kept
StoreWrite_first(store, portfolio) ==
    IF portfolio.multiplexer_id \in DOMAIN store
    THEN store ELSE Put(store, portfolio.multiplexer_id, portfolio)

\* a store that holds the latest portfolio only
StoreWrite_only(store, portfolio) ==
    (portfolio.multiplexer_id :> portfolio)

\* line 29: client_portfolios_[p.multiplexer_id] = p
StoreWrite(store, portfolio) == Put(store, portfolio.multiplexer_id, portfolio)

\* std::map::insert semantics: an existing entry is kept
RegistryUpsert_m(reg, id, mu, sigma) ==
    IF id \in DOMAIN reg THEN reg ELSE Put(reg, id, [mu |-> mu, sigma |-> sigma])

\* the drift added to the entry's instead of replacing it
RegistryUpsert_acc(reg, id, mu, sigma) ==
    IF id \in DOMAIN reg
    THEN Put(reg, id, [mu |-> RAdd(reg[id].mu, mu), sigma |-> sigma])
    ELSE Put(reg, id, [mu |-> mu, sigma |-> sigma])

\* only the drift of an existing entry is replaced, its volatility kept
RegistryUpsert_mu(reg, id, mu, sigma) ==
    IF id \in DOMAIN reg
    THEN Put(reg, id, [mu |-> mu, sigma |-> reg[id].sigma])
    ELSE Put(reg, id, [mu |-> mu, sigma |-> sigma])

\* line 11: registry_.clients[id] = {mu, sigma}
RegistryUpsert(reg, id, mu, sigma) == Put(reg, id, StrategyParams(mu, sigma))

\* a remove_client that leaves the registry entry in place
RegistryErase_m(reg, id) == reg

\* line 19: registry_.clients.erase(id)
RegistryErase(reg, id) == Erase(reg, id)

\* remove_client without line 20: the stale portfolio stays
StoreErase_m(store, id) == store

\* the stored portfolio cleared in place: client_portfolios_[id] = {}
StoreErase_clear(store, id) == Put(store, id, EmptyPortfolio)

\* line 20: client_portfolios_.erase(id)
StoreErase(store, id) == Erase(store, id)

-----------------------------------------------------------------------------
(* What arrives on the sockets *)

W(n, d) == R(n, d)

\* weight vectors carried by inbound portfolios
WireWeights ==
    { (AAPL :> W(1, 1)),
      (AAPL :> W(-1, 2)) @@ (MSFT :> W(1, 1)) }

\* the clients that send portfolios and that admin commands name
WireIds == {"StratA", "X"}

WirePortfolios ==
    { TargetPortfolio(id, w) : id \in WireIds, w \in WireWeights }

\* (mu, sigma) carried by ADD / UPDATE commands
WireParams ==
    { StrategyParams(R(10, 1), R(1, 100)),
      StrategyParams(R(5, 100), R(0, 1)) }

WireRequests ==
    { [cmd |-> c, id |-> id, mu |-> prm.mu, sigma |-> prm.sigma] :
          c \in {"ADD", "UPDATE"}, id \in WireIds, prm \in WireParams }
    \cup { [cmd |-> "REMOVE", id |-> id] : id \in WireIds }
    \cup { [cmd |-> "FLUSH"], [id |-> "X"] }
    \cup { [cmd |-> "ADD", mu |-> R(5, 100), sigma |-> R(10, 100)],
           [cmd |-> "REMOVE"], [garbage |-> TRUE] }
    \cup { [cmd |-> "ADD", id |-> "X", sigma |-> R(10, 100)],
           [cmd |-> "UPDATE", id |-> "X", mu |-> R(5, 100)] }

\* the instruments in the order of Instrument::operator<
InstrumentKeys == <<AAPL, MSFT>>

\* to_json(Instrument) and from_json(Instrument): the symbol and the
\* exchange sit under "data"; at() throws on a missing key
to_json_Instrument(i) ==
    [type |-> i.type, data |-> [symbol |-> i.symbol, exchange |-> i.exchange]]
from_json_Instrument_throws(j) ==
    ~ /\ {"type", "data"} \subseteq DOMAIN j
      /\ {"symbol", "exchange"} \subseteq DOMAIN j.data
from_json_Instrument(j) ==
    [type |-> j.type, symbol |-> j.data.symbol, exchange |-> j.data.exchange]

\* to_json(TargetPortfolio): the weights as a list of [instrument, weight]
\* pairs in key order, under "data"; a JSON number is [num |-> value], a
\* JSON string [str |-> text]
to_json_TargetPortfolio(pf) ==
    [type |-> "TargetPortfolio",
     data |-> [multiplexer_id |-> pf.multiplexer_id,
               target_weights |->
                   LET ks == SelectSeq(InstrumentKeys,
                                 LAMBDA i : i \in DOMAIN pf.target_weights)
                   IN  [k \in 1..Len(ks) |->
                           <<to_json_Instrument(ks[k]),
                             [num |-> pf.target_weights[ks[k]]]>>]]]

\* from_json(TargetPortfolio): "data" is looked into if present; the id is
\* taken from "multiplexer_id" or "strategy_id"; each item of
\* "target_weights" is assigned into the map
JsonData(j) == IF "data" \in DOMAIN j THEN j.data ELSE j
JsonId(d) ==
    IF "multiplexer_id" \in DOMAIN d THEN d.multiplexer_id
    ELSE IF "strategy_id" \in DOMAIN d THEN d.strategy_id
    ELSE ""
JsonWeights(d) ==
    IF "target_weights" \in DOMAIN d THEN d.target_weights ELSE <<>>
RECURSIVE WeightsFrom(_, _)
WeightsFrom(items, acc) ==
    IF items = <<>> THEN acc
    ELSE WeightsFrom(Tail(items),
             Put(acc, from_json_Instrument(Head(items)[1]), Head(items)[2].num))
from_json_TargetPortfolio(j) ==
    TargetPortfolio(JsonId(JsonData(j)), WeightsFrom(JsonWeights(JsonData(j)), EmptyMap))

\* listen_loop line 44: json::parse throws on a text that is no JSON
ParseThrows(m) == "garbage" \in DOMAIN m
\* listen_loop line 45: the conversion throws on an item whose instrument
\* lacks a key or whose weight is no number
ConvertThrows(m) ==
    \E k \in 1..Len(JsonWeights(JsonData(m))) :
        \/ from_json_Instrument_throws(JsonWeights(JsonData(m))[k][1])
        \/ "num" \notin DOMAIN JsonWeights(JsonData(m))[k][2]
Dropped(m) == ParseThrows(m) \/ ConvertThrows(m)

\* inbound data messages: every wire portfolio with and without the "data"
\* wrapper, a text that is no JSON, a weight that is a string, an
\* instrument without "data"
WireMessages ==
    { to_json_TargetPortfolio(pf) : pf \in WirePortfolios }
    \cup { to_json_TargetPortfolio(pf).data : pf \in WirePortfolios }
    \cup { [garbage |-> TRUE],
           [multiplexer_id |-> "X",
            target_weights |-> << <<to_json_Instrument(AAPL), [str |-> "high"]>> >>],
           [data |-> [multiplexer_id |-> "StratA",
                      target_weights |->
                          << <<to_json_Instrument(AAPL), [num |-> W(1, 1)]>>,
                             <<[type |-> "Stock"], [num |-> W(1, 1)]>> >>]] }

NoCall == [made |-> FALSE]

-----------------------------------------------------------------------------
(* Construction: main.cpp *)

\* main.cpp lines 32-37 and 53, before either listener has received anything
Init ==
    /\ registry_ = ("StratA" :> ParamsStratA) @@ ("StratB" :> ParamsStratB)
    /\ client_portfolios_ = EmptyMap
    /\ config_ = [kelly_fraction |-> R(3, 10)]
    /\ state_mutex_ = "free"
    /\ pcIn = "recv"
    /\ p = NoPortfolio
    /\ aggregated = NoPortfolio
    /\ used = EmptyMap
    /\ written = NoSnapshot
    /\ pcAd = "recv"
    /\ req = NoReq
    /\ response = NoResponse
    /\ j_req = NoRequest
    /\ engine_calls = <<>>
    /\ purged = {}
    /\ autoRegistered = {}
    /\ ackedRemoved = {}
    /\ ackedAdded = EmptyMap
    /\ last = NoCall
    /\ latest = EmptyMap
    /\ dropped = {}
    /\ pickup = EmptyMap
    /\ lastAdmin = NoAdmin
    /\ in_calls = 0
    /\ outbox = <<>>
    /\ in_last = "none"
    /\ ad_owed = 0
    /\ weight_map = <<>>
    /\ applied = {}
    /\ last_prices_ = EmptyMap
    /\ batch = <<>>
    /\ allocation = nullptr

\* a lock that excludes nobody
MutexFree_m(m) == TRUE

\* std::lock_guard<std::mutex> lock(state_mutex_): blocks until the mutex is free
MutexFree(m) == m = "free"

-----------------------------------------------------------------------------
(* Input thread: ZmqInputListener::listen_loop and the callback of main *)

\* listen_loop lines 39-47: recv, json::parse, from_json succeeded;
\* callback_(p) is entered
In_Recv ==
    /\ pcIn = "recv"
    /\ \E m \in WireMessages :
          /\ ~Dropped(m)
          /\ p' = from_json_TargetPortfolio(m)
    /\ pcIn' = "call"
    /\ in_calls' = 0
    /\ outbox' = <<>>
    /\ in_last' = "parsed"
    /\ UNCHANGED <<instVars, ad_owed,
                   engineVars, state_mutex_, aggregated, used, written,
                   adminVars, obsVars, last, histVars>>

\* on_portfolio_received without its lock_guard
In_Lock_m ==
    /\ pcIn = "call"
    /\ pcIn' = "write"
    /\ in_calls' = in_calls + 1
    /\ outbox' = outbox
    /\ UNCHANGED <<instVars, in_last, ad_owed,
                   engineVars, state_mutex_, p, aggregated, used, written,
                   adminVars, obsVars, last, histVars>>

\* main.cpp line 68 and on_portfolio_received line 26: the callback calls
\* on_portfolio_received, the lock is taken
In_Lock ==
    /\ pcIn = "call"
    /\ MutexFree(state_mutex_)
    /\ state_mutex_' = "input"
    /\ pcIn' = "write"
    /\ in_calls' = in_calls + 1
    /\ outbox' = outbox
    /\ UNCHANGED <<instVars, in_last, ad_owed,
                   engineVars, p, aggregated, used, written, adminVars,
                   obsVars, last, histVars>>

\* on_portfolio_received line 29
In_Write ==
    /\ pcIn = "write"
    /\ client_portfolios_' = StoreWrite(client_portfolios_, p)
    /\ written' = [taken |-> TRUE, store |-> client_portfolios_',
                   registry |-> registry_]
    /\ purged' = purged \ {p.multiplexer_id}
    /\ ackedRemoved' = ackedRemoved \ {p.multiplexer_id}
    /\ latest' = Put(latest, p.multiplexer_id, p)
    /\ dropped' = IF p.multiplexer_id \in DOMAIN client_portfolios_
                  THEN DOMAIN client_portfolios_[p.multiplexer_id].target_weights
                           \ DOMAIN p.target_weights
                  ELSE {}
    /\ pcIn' = "recalc"
    /\ UNCHANGED <<wireVars, instVars,
                   registry_, config_, state_mutex_, p, aggregated, used,
                   adminVars, autoRegistered, ackedAdded, last, pickup,
                   lastAdmin>>

\* on_portfolio_received line 32: recalculate_and_publish runs to its return
In_Recalc ==
    /\ pcIn = "recalc"
    /\ \E out \in {Recalculate(client_portfolios_, registry_, config_.kelly_fraction)} :
           /\ registry_' = out.registry
           /\ aggregated' = out.result
           /\ used' = out.used
           /\ autoRegistered' =
                  autoRegistered \cup (DOMAIN out.registry \ DOMAIN registry_)
    /\ pickup' = [id \in DOMAIN pickup |-> [pickup[id] EXCEPT !.stage = "picked"]]
    /\ pcIn' = "ret"
    /\ UNCHANGED <<wireVars, instVars,
                   client_portfolios_, config_, state_mutex_, p, written,
                   adminVars, purged, ackedRemoved, ackedAdded, last, latest,
                   dropped, lastAdmin>>

\* on_portfolio_received returns with the mutex still locked
In_Return_m ==
    /\ pcIn = "ret"
    /\ pcIn' = "publish"
    /\ UNCHANGED <<wireVars, instVars, engineVars, state_mutex_, p, aggregated,
                   used, written, adminVars, obsVars, last, histVars>>

\* on_portfolio_received returns: the lock_guard releases the mutex
In_Return ==
    /\ pcIn = "ret"
    /\ state_mutex_' = "free"
    /\ pcIn' = "publish"
    /\ UNCHANGED <<wireVars, instVars,
                   engineVars, p, aggregated, used, written, adminVars,
                   obsVars, last, histVars>>

\* a callback that forwards the portfolio it received
In_Publish_m ==
    /\ pcIn = "publish"
    /\ outbox' = Append(outbox, p)
    /\ pcIn' = "recv"
    /\ p' = NoPortfolio
    /\ aggregated' = NoPortfolio
    /\ used' = EmptyMap
    /\ written' = NoSnapshot
    /\ dropped' = {}
    /\ pickup' = [id \in {x \in DOMAIN pickup : pickup[x].stage = "pending"} |->
                      pickup[id]]
    /\ UNCHANGED <<instVars, engineVars, state_mutex_, in_calls, in_last,
                   ad_owed, adminVars, obsVars, last, latest, lastAdmin>>

\* main.cpp lines 72-76: output->publish(aggregated) if the aggregate has an
\* id; the callback returns and the loop goes back to recv
In_Publish ==
    /\ pcIn = "publish"
    /\ outbox' = IF aggregated.multiplexer_id # ""
                 THEN Append(outbox, aggregated) ELSE outbox
    /\ pcIn' = "recv"
    /\ p' = NoPortfolio
    /\ aggregated' = NoPortfolio
    /\ used' = EmptyMap
    /\ written' = NoSnapshot
    /\ dropped' = {}
    /\ pickup' = [id \in {x \in DOMAIN pickup : pickup[x].stage = "pending"} |->
                      pickup[id]]
    /\ UNCHANGED <<instVars, engineVars, state_mutex_, in_calls, in_last,
                   ad_owed, adminVars, obsVars, last, latest, lastAdmin>>

\* a listener that hands a default-constructed portfolio to the callback
\* when the message does not parse
In_RecvBad_m ==
    /\ pcIn = "recv"
    /\ \E m \in WireMessages : Dropped(m)
    /\ p' = EmptyPortfolio
    /\ pcIn' = "call"
    /\ in_calls' = 0
    /\ outbox' = <<>>
    /\ in_last' = "dropped"
    /\ UNCHANGED <<instVars, ad_owed, engineVars, state_mutex_, aggregated,
                   used, written, adminVars, obsVars, last, histVars>>

\* listen_loop lines 39-45 and 56-58: json::parse or from_json throws, the
\* error is logged, the loop goes back to recv
In_RecvBad ==
    /\ pcIn = "recv"
    /\ \E m \in WireMessages : Dropped(m)
    /\ in_calls' = 0
    /\ outbox' = <<>>
    /\ in_last' = "dropped"
    /\ UNCHANGED <<instVars, ad_owed, engineVars, state_mutex_, inputVars,
                   adminVars, obsVars, last, histVars>>

\* listen_loop lines 39 and 50-55: recv throws zmq::error_t, the loop ends
In_RecvError ==
    /\ pcIn = "recv"
    /\ pcIn' = "stopped"
    /\ in_last' = "zmq_error"
    /\ UNCHANGED <<instVars, in_calls, outbox, ad_owed, engineVars,
                   state_mutex_, p, aggregated, used, written, adminVars,
                   obsVars, last, histVars>>

-----------------------------------------------------------------------------
(* Admin thread: ZmqAdminListener::listen_loop *)

\* a reply of lines 49, 53, 55 or 70: its status and its msg, the msg as the
\* sequence of the pieces of text it is made of
Reply(status, msg) == [status |-> status, msg |-> msg]

\* json::parse(str_req) succeeds
Parses(r) == "garbage" \notin DOMAIN r
\* j_req.value("cmd", "")
Cmd(r) == IF "cmd" \in DOMAIN r THEN r.cmd ELSE ""
\* j_req.at(key) does not throw
Has(r, key) == key \in DOMAIN r

\* a dispatch whose last branch is a plain else: every other command removes
Dispatch_m(r) ==
    IF ~Parses(r) THEN "throw"
    ELSE IF Cmd(r) \in {"ADD", "UPDATE"}
         THEN IF Has(r, "id") /\ Has(r, "mu") /\ Has(r, "sigma")
              THEN "add" ELSE "throw"
    ELSE IF Has(r, "id") THEN "remove" ELSE "throw"

\* lines 37-56: what the dispatch does with a received request, up to the
\* engine call: "add" / "remove" (call the engine), "throw" (json::parse or
\* an at() threw before any engine call), "unknown" (the else branch)
Dispatch(r) ==
    IF ~Parses(r) THEN "throw"
    ELSE IF Cmd(r) \in {"ADD", "UPDATE"}
         THEN IF Has(r, "id") /\ Has(r, "mu") /\ Has(r, "sigma")
              THEN "add" ELSE "throw"
    ELSE IF Cmd(r) = "REMOVE"
         THEN IF Has(r, "id") THEN "remove" ELSE "throw"
    ELSE "unknown"

\* an error reply with a fixed text in place of e.what()
What_m(r) == <<"Invalid request">>

\* e.what() of the exception thrown on r: json::parse's parse_error, or the
\* out_of_range of the first at() (id, then mu, then sigma) that finds no key
What(r) ==
    IF ~Parses(r) THEN <<"parse_error">>
    ELSE IF ~Has(r, "id") THEN <<"out_of_range: key", "id", "not found">>
    ELSE IF ~Has(r, "mu") THEN <<"out_of_range: key", "mu", "not found">>
    ELSE <<"out_of_range: key", "sigma", "not found">>

\* the locals passed to add_client in the order (id, sigma, mu)
Extract_m(r) ==
    IF Dispatch(r) = "add"
    THEN [call |-> "add_client", id |-> r.id, mu |-> r.sigma, sigma |-> r.mu]
    ELSE IF Dispatch(r) = "remove"
    THEN [call |-> "remove_client", id |-> r.id]
    ELSE NoReq

\* lines 45-47 and 51: the locals the dispatch extracts for the engine call
Extract(r) ==
    IF Dispatch(r) = "add"
    THEN [call |-> "add_client", id |-> r.id, mu |-> r.mu, sigma |-> r.sigma]
    ELSE IF Dispatch(r) = "remove"
    THEN [call |-> "remove_client", id |-> r.id]
    ELSE NoReq

\* a socket that hands out a request while the reply to the one before is
\* still owed
Ad_Recv_m ==
    /\ pcAd = "recv"
    /\ \E r \in WireRequests :
          /\ j_req' = r
          /\ req' = Extract(r)
          /\ pcAd' = CASE Dispatch(r) = "add" -> "add_call"
                       [] Dispatch(r) = "remove" -> "rm_call"
                       [] OTHER -> "send"
          /\ response' = CASE Dispatch(r) = "throw" -> Reply("ERROR", What(r))
                           [] Dispatch(r) = "unknown" ->
                                  Reply("ERROR", <<"Unknown command">>)
                           [] OTHER -> NoResponse
    /\ engine_calls' = <<>>
    /\ ad_owed' = ad_owed + 1
    /\ UNCHANGED <<in_calls, outbox, in_last, instVars,
                   engineVars, state_mutex_, inputVars, obsVars, last, histVars>>

\* lines 33-56 (66-70 after an exception): a request is received, parsed and
\* dispatched, up to the engine call or to the reply that needs none; the
\* REP socket (line 10) hands out a request only when no reply is owed
Ad_Recv ==
    /\ pcAd = "recv"
    /\ ad_owed = 0
    /\ \E r \in WireRequests :
          /\ j_req' = r
          /\ req' = Extract(r)
          /\ pcAd' = CASE Dispatch(r) = "add" -> "add_call"
                       [] Dispatch(r) = "remove" -> "rm_call"
                       [] OTHER -> "send"
          /\ response' = CASE Dispatch(r) = "throw" -> Reply("ERROR", What(r))
                           [] Dispatch(r) = "unknown" ->
                                  Reply("ERROR", <<"Unknown command">>)
                           [] OTHER -> NoResponse
    /\ engine_calls' = <<>>
    /\ ad_owed' = ad_owed + 1
    /\ UNCHANGED <<in_calls, outbox, in_last, instVars,
                   engineVars, state_mutex_, inputVars, obsVars, last, histVars>>

\* add_client without its lock_guard
Ad_AddLock_m ==
    /\ pcAd = "add_call"
    /\ pcAd' = "add_body"
    /\ engine_calls' = Append(engine_calls, req)
    /\ UNCHANGED <<wireVars, instVars,
                   engineVars, state_mutex_, inputVars, req, response, j_req,
                   obsVars, last, histVars>>

\* line 48 and add_client line 10: add_client is called, the lock is taken
Ad_AddLock ==
    /\ pcAd = "add_call"
    /\ MutexFree(state_mutex_)
    /\ state_mutex_' = "admin"
    /\ pcAd' = "add_body"
    /\ engine_calls' = Append(engine_calls, req)
    /\ UNCHANGED <<wireVars, instVars,
                   engineVars, inputVars, req, response, j_req, obsVars, last,
                   histVars>>

\* add_client lines 11-15: the entry is written, the lock released;
\* listen_loop line 49 builds the reply
Ad_AddBody ==
    /\ pcAd = "add_body"
    /\ registry_' = RegistryUpsert(registry_, req.id, req.mu, req.sigma)
    /\ state_mutex_' = "free"
    /\ response' = Reply("OK", <<"Client updated">>)
    /\ pcAd' = "send"
    /\ autoRegistered' = autoRegistered \ {req.id}
    /\ ackedAdded' = Erase(ackedAdded, req.id)
    /\ last' = NoCall
    /\ pickup' = IF req.id \in DOMAIN client_portfolios_
                 THEN Put(pickup, req.id,
                          [stage |-> "pending",
                           params |-> StrategyParams(req.mu, req.sigma)])
                 ELSE Erase(pickup, req.id)
    /\ UNCHANGED <<wireVars, instVars,
                   client_portfolios_, config_, inputVars, req, j_req,
                   engine_calls, purged, ackedRemoved, latest, dropped,
                   lastAdmin>>

\* remove_client without its lock_guard
Ad_RemoveLock_m ==
    /\ pcAd = "rm_call"
    /\ pcAd' = "rm_reg"
    /\ engine_calls' = Append(engine_calls, req)
    /\ UNCHANGED <<wireVars, instVars,
                   engineVars, state_mutex_, inputVars, req, response, j_req,
                   obsVars, last, histVars>>

\* line 52 and remove_client line 18: remove_client is called, the lock is taken
Ad_RemoveLock ==
    /\ pcAd = "rm_call"
    /\ MutexFree(state_mutex_)
    /\ state_mutex_' = "admin"
    /\ pcAd' = "rm_reg"
    /\ engine_calls' = Append(engine_calls, req)
    /\ UNCHANGED <<wireVars, instVars,
                   engineVars, inputVars, req, response, j_req, obsVars, last,
                   histVars>>

\* remove_client line 19
Ad_RemoveRegistry ==
    /\ pcAd = "rm_reg"
    /\ registry_' = RegistryErase(registry_, req.id)
    /\ pcAd' = "rm_store"
    /\ autoRegistered' = autoRegistered \ {req.id}
    /\ ackedAdded' = Erase(ackedAdded, req.id)
    /\ last' = NoCall
    /\ pickup' = Erase(pickup, req.id)
    /\ UNCHANGED <<wireVars, instVars,
                   client_portfolios_, config_, state_mutex_, inputVars, req,
                   response, j_req, engine_calls, purged, ackedRemoved,
                   latest, dropped, lastAdmin>>

\* remove_client returns with the mutex still locked
Ad_RemoveStore_m ==
    /\ pcAd = "rm_store"
    /\ client_portfolios_' = StoreErase(client_portfolios_, req.id)
    /\ purged' = IF req.id \in DOMAIN client_portfolios_
                 THEN purged \cup {req.id} ELSE purged
    /\ latest' = Erase(latest, req.id)
    /\ response' = Reply("OK", <<"Client removed">>)
    /\ pcAd' = "send"
    /\ UNCHANGED <<wireVars, instVars, state_mutex_,
                   registry_, config_, inputVars, req, j_req, engine_calls,
                   autoRegistered, ackedRemoved, ackedAdded, last, dropped,
                   pickup, lastAdmin>>

\* remove_client lines 20-22: the stored portfolio is erased, the lock
\* released; listen_loop line 53 builds the reply
Ad_RemoveStore ==
    /\ pcAd = "rm_store"
    /\ client_portfolios_' = StoreErase(client_portfolios_, req.id)
    /\ purged' = IF req.id \in DOMAIN client_portfolios_
                 THEN purged \cup {req.id} ELSE purged
    /\ latest' = Erase(latest, req.id)
    /\ state_mutex_' = "free"
    /\ response' = Reply("OK", <<"Client removed">>)
    /\ pcAd' = "send"
    /\ UNCHANGED <<wireVars, instVars,
                   registry_, config_, inputVars, req, j_req, engine_calls,
                   autoRegistered, ackedRemoved, ackedAdded, last, dropped,
                   pickup, lastAdmin>>

\* lines 58-60 (70-72 after an exception): the reply is sent, and the loop
\* goes back to recv
Ad_Send ==
    /\ pcAd = "send"
    /\ ackedRemoved' = IF response = Reply("OK", <<"Client removed">>)
                       THEN ackedRemoved \cup ({req.id} \cap purged)
                       ELSE ackedRemoved
    /\ ackedAdded' = IF response = Reply("OK", <<"Client updated">>)
                     THEN Put(ackedAdded, req.id, StrategyParams(req.mu, req.sigma))
                     ELSE ackedAdded
    /\ req' = NoReq
    /\ response' = NoResponse
    /\ j_req' = NoRequest
    /\ engine_calls' = <<>>
    /\ pcAd' = "recv"
    /\ ad_owed' = ad_owed - 1
    /\ UNCHANGED <<in_calls, outbox, in_last, instVars,
                   engineVars, state_mutex_, inputVars, purged,
                   autoRegistered, last, histVars>>

\* lines 33 and 62-65: recv throws zmq::error_t (the context is closed, or
\* a reply is still owed on the REP socket), the loop ends
Ad_RecvError ==
    /\ pcAd = "recv"
    /\ pcAd' = "stopped"
    /\ UNCHANGED <<wireVars, instVars, engineVars, state_mutex_, inputVars,
                   req, response, j_req, engine_calls, obsVars, last, histVars>>

\* the reply is not sent: send on line 60 throws zmq::error_t, caught on
\* lines 62-65, and the loop ends; inside the handler of std::exception a
\* throw of lines 70-72 (send, or dump on a what() that is no UTF-8) is
\* swallowed on lines 73-74 and the loop goes back to recv with the reply
\* still owed
Ad_SendError ==
    /\ pcAd = "send"
    /\ pcAd' = IF Dispatch(j_req) = "throw" THEN "recv" ELSE "stopped"
    /\ j_req' = NoRequest
    /\ req' = NoReq
    /\ response' = NoResponse
    /\ engine_calls' = <<>>
    /\ UNCHANGED <<wireVars, instVars, engineVars, state_mutex_, inputVars,
                   obsVars, last, histVars>>

-----

Next ==
    \/ In_Recv \/ In_Lock \/ In_Write \/ In_Recalc \/ In_Return \/ In_Publish
    \/ Ad_Recv \/ Ad_AddLock \/ Ad_AddBody
    \/ Ad_RemoveLock \/ Ad_RemoveRegistry \/ Ad_RemoveStore \/ Ad_Send

Spec == Init /\ [][Next]_vars

\* the two threads with the faults of their sockets and of the inbound
\* messages
NextIO ==
    \/ Next
    \/ In_RecvBad \/ In_RecvError
    \/ Ad_RecvError \/ Ad_SendError

SpecIO == Init /\ [][NextIO]_vars

\* the steps a thread takes on its own once it is inside an engine call or
\* holds a result: they wait for nothing
InputSteps == In_Write \/ In_Return \/ In_Publish
AdminSteps == Ad_AddBody \/ Ad_RemoveRegistry \/ Ad_RemoveStore \/ Ad_Send

\* the recompute seen from the thread's position: recalculate_and_publish
\* is entered and returns (its loops are bounded by the stored clients and
\* their instruments)
In_RecalcReturns == pcIn = "recalc" /\ pcIn' = "ret"

\* the traffic of the fair specification: portfolios of a registered and of
\* an unregistered client, and requests of every kind of reply
FairPortfolios == { TargetPortfolio(id, (AAPL :> W(1, 1))) : id \in WireIds }
FairRequests ==
    { r \in WireRequests :
        /\ "id" \in DOMAIN r => r.id = "X"
        /\ "mu" \in DOMAIN r => r.mu = R(5, 100)
        /\ Cmd(r) # "UPDATE" }

\* a step of the two threads on that traffic
NextFair ==
    \/ In_Recv /\ p' \in FairPortfolios
    \/ In_Lock \/ In_Write \/ In_Recalc \/ In_Return \/ In_Publish
    \/ Ad_Recv /\ j_req' \in FairRequests
    \/ Ad_AddLock \/ Ad_AddBody
    \/ Ad_RemoveLock \/ Ad_RemoveRegistry \/ Ad_RemoveStore \/ Ad_Send

\* fair scheduling: a thread that can run does run, and a thread waiting for
\* the mutex gets it if it is free again and again; recv may block for ever
SpecFair ==
    /\ Init
    /\ [][NextFair]_vars
    /\ WF_vars(InputSteps)
    /\ WF_pcIn(In_RecalcReturns)
    /\ WF_vars(AdminSteps)
    /\ SF_vars(In_Lock)
    /\ SF_vars(Ad_AddLock)
    /\ SF_vars(Ad_RemoveLock)

-----------------------------------------------------------------------------
(* The engine alone: one caller making whole calls of the public methods   *)
(* of KellyMultiplexer, constructed with main's registry and a config      *)

\* kelly_fraction values the engine is constructed with
EngineFractions == { R(3, 10), R(1, 1) }

\* (mu, sigma) passed to add_client: beyond the clamp on either side, and
\* volatilities at or below the guard
EngineParams ==
    { StrategyParams(R(10, 1), R(1, 100)),
      StrategyParams(R(-10, 1), R(1, 100)),
      StrategyParams(R(5, 100), R(0, 1)),
      StrategyParams(R(-10, 1), R(-1, 10)),
      StrategyParams(R(10, 1), R(1, 1000000)) }

\* the ids add_client is called with
EngineAdminIds == {"X"}

\* portfolios passed to on_portfolio_received
EnginePortfolios ==
    { TargetPortfolio(id, w) : id \in Clients, w \in WireWeights \cup {EmptyMap} }

InitEngine ==
    /\ registry_ = ("StratA" :> ParamsStratA) @@ ("StratB" :> ParamsStratB)
    /\ client_portfolios_ = EmptyMap
    /\ config_ \in { [kelly_fraction |-> f] : f \in EngineFractions }
    /\ state_mutex_ = "free"
    /\ pcIn = "recv"
    /\ p = NoPortfolio
    /\ aggregated = NoPortfolio
    /\ used = EmptyMap
    /\ written = NoSnapshot
    /\ pcAd = "recv"
    /\ req = NoReq
    /\ response = NoResponse
    /\ j_req = NoRequest
    /\ engine_calls = <<>>
    /\ purged = {}
    /\ autoRegistered = {}
    /\ ackedRemoved = {}
    /\ ackedAdded = EmptyMap
    /\ last = NoCall
    /\ latest = EmptyMap
    /\ dropped = {}
    /\ pickup = EmptyMap
    /\ lastAdmin = NoAdmin
    /\ in_calls = 0
    /\ outbox = <<>>
    /\ in_last = "none"
    /\ ad_owed = 0
    /\ weight_map = <<>>
    /\ applied = {}
    /\ last_prices_ = EmptyMap
    /\ batch = <<>>
    /\ allocation = nullptr

\* an engine that adds each recompute onto the aggregate it returned before
on_portfolio_received_m(pf) ==
    /\ pcIn = "recv"
    /\ MutexFree(state_mutex_)
    /\ p' = pf
    /\ client_portfolios_' = StoreWrite(client_portfolios_, pf)
    /\ written' = [taken |-> TRUE, store |-> client_portfolios_',
                   registry |-> registry_]
    /\ \E out \in {Recalculate(client_portfolios_', registry_, config_.kelly_fraction)} :
           /\ registry_' = out.registry
           /\ aggregated' =
                  IF aggregated = NoPortfolio THEN out.result
                  ELSE TargetPortfolio(AggregatedId,
                           ScaleAndAdd(aggregated.target_weights,
                                       out.result.target_weights, R(1, 1)))
           /\ used' = out.used
    /\ last' = IF last.made /\ p = pf
               THEN [last EXCEPT !.repeat = TRUE]
               ELSE [made |-> TRUE, repeat |-> FALSE,
                     unregistered |-> pf.multiplexer_id \notin DOMAIN registry_]
    /\ latest' = Put(latest, pf.multiplexer_id, pf)
    /\ lastAdmin' = NoAdmin
    /\ pcIn' = "publish"
    /\ UNCHANGED <<wireVars, instVars,
                   config_, state_mutex_, adminVars, obsVars, dropped, pickup>>

\* on_portfolio_received(pf), lines 24-33, from lock to return; the caller
\* keeps the portfolio it passed and the result until its next call
on_portfolio_received(pf) ==
    /\ pcIn = "recv"
    /\ MutexFree(state_mutex_)
    /\ p' = pf
    /\ client_portfolios_' = StoreWrite(client_portfolios_, pf)
    /\ written' = [taken |-> TRUE, store |-> client_portfolios_',
                   registry |-> registry_]
    /\ \E out \in {Recalculate(client_portfolios_', registry_, config_.kelly_fraction)} :
           /\ registry_' = out.registry
           /\ aggregated' = out.result
           /\ used' = out.used
    /\ last' = IF last.made /\ p = pf
               THEN [last EXCEPT !.repeat = TRUE]
               ELSE [made |-> TRUE, repeat |-> FALSE,
                     unregistered |-> pf.multiplexer_id \notin DOMAIN registry_]
    /\ latest' = Put(latest, pf.multiplexer_id, pf)
    /\ lastAdmin' = NoAdmin
    /\ pcIn' = "publish"
    /\ UNCHANGED <<wireVars, instVars,
                   config_, state_mutex_, adminVars, obsVars, dropped, pickup>>

\* the caller has taken the returned aggregate
Eng_Return ==
    /\ pcIn = "publish"
    /\ pcIn' = "recv"
    /\ UNCHANGED <<wireVars, instVars,
                   engineVars, state_mutex_, p, aggregated, used, written,
                   adminVars, obsVars, last, histVars>>

\* add_client(id, mu, sigma), lines 8-15, from lock to return
add_client(id, mu, sigma) ==
    /\ pcIn = "recv"
    /\ MutexFree(state_mutex_)
    /\ registry_' = RegistryUpsert(registry_, id, mu, sigma)
    /\ p' = NoPortfolio
    /\ aggregated' = NoPortfolio
    /\ used' = EmptyMap
    /\ written' = NoSnapshot
    /\ last' = NoCall
    /\ lastAdmin' = [call |-> "add_client", id |-> id, mu |-> mu, sigma |-> sigma,
                     again |-> /\ lastAdmin.call = "add_client"
                               /\ lastAdmin.id = id
                               /\ lastAdmin.mu = mu
                               /\ lastAdmin.sigma = sigma]
    /\ UNCHANGED <<wireVars, instVars,
                   client_portfolios_, config_, state_mutex_, pcIn,
                   adminVars, obsVars, latest, dropped, pickup>>

\* remove_client(id), lines 17-22, from lock to return
remove_client(id) ==
    /\ pcIn = "recv"
    /\ MutexFree(state_mutex_)
    /\ registry_' = RegistryErase(registry_, id)
    /\ client_portfolios_' = StoreErase(client_portfolios_, id)
    /\ p' = NoPortfolio
    /\ aggregated' = NoPortfolio
    /\ used' = EmptyMap
    /\ written' = NoSnapshot
    /\ last' = NoCall
    /\ latest' = Erase(latest, id)
    /\ lastAdmin' = [call |-> "remove_client", id |-> id,
                     absent |-> /\ id \notin DOMAIN registry_
                                /\ id \notin DOMAIN client_portfolios_,
                     again |-> /\ lastAdmin.call = "remove_client"
                               /\ lastAdmin.id = id]
    /\ UNCHANGED <<wireVars, instVars,
                   config_, state_mutex_, pcIn, adminVars, obsVars, dropped,
                   pickup>>

Eng_Portfolio == \E pf \in EnginePortfolios : on_portfolio_received(pf)
Eng_Add ==
    \E id \in EngineAdminIds, prm \in EngineParams : add_client(id, prm.mu, prm.sigma)
Eng_Remove == \E id \in Clients : remove_client(id)

NextEngine == Eng_Portfolio \/ Eng_Return \/ Eng_Add \/ Eng_Remove

SpecEngine == InitEngine /\ [][NextEngine]_vars

-----------------------------------------------------------------------------
(* Instrument, the key type of the weight maps: a map filled by the        *)
(* statement of recalculate_and_publish line 82 (SpecInstrument)           *)

\* std::string values as their sequences of character codes:
\* "F" and "S"; "A" and "AA"; "N" and "n"
TypeStrings     == { <<70>>, <<83>> }
SymbolStrings   == { <<65>>, <<65, 65>> }
ExchangeStrings == { <<78>>, <<110>> }

\* the instruments a map is filled with
KeyInstruments ==
    { [type |-> t, data |-> [symbol |-> s, exchange |-> e]] :
          t \in TypeStrings, s \in SymbolStrings, e \in ExchangeStrings }

\* the weights added into the map
KeyWeights == { 1, 2 }

\* std::string operator< : the first differing character decides, a proper
\* prefix is less
RECURSIVE StringLess(_, _)
StringLess(a, b) ==
    IF b = <<>> THEN FALSE
    ELSE IF a = <<>> THEN TRUE
    ELSE IF Head(a) # Head(b) THEN Head(a) < Head(b)
    ELSE StringLess(Tail(a), Tail(b))

\* an operator< that leaves the exchange out
InstrumentLess_m(a, b) ==
    IF a.type # b.type THEN StringLess(a.type, b.type)
    ELSE StringLess(a.data.symbol, b.data.symbol)

\* Instrument::operator<
InstrumentLess(a, b) ==
    IF a.type # b.type THEN StringLess(a.type, b.type)
    ELSE IF a.data.symbol # b.data.symbol
    THEN StringLess(a.data.symbol, b.data.symbol)
    ELSE StringLess(a.data.exchange, b.data.exchange)

\* Instrument::operator==
InstrumentEq(a, b) ==
    /\ a.type = b.type
    /\ a.data.symbol = b.data.symbol
    /\ a.data.exchange = b.data.exchange

\* std::map::lower_bound: the index of the first entry whose key is not less
\* than k, Len(m) + 1 if there is none
RECURSIVE LowerBound(_, _, _)
LowerBound(m, k, i) ==
    IF i > Len(m) THEN i
    ELSE IF InstrumentLess(m[i].key, k) THEN LowerBound(m, k, i + 1)
    ELSE i

\* m[k] += w : operator[] finds the entry equivalent to k under operator<
\* or inserts a zero entry in key order, then w is added to it
MapAddTo(m, k, w) ==
    LET i == LowerBound(m, k, 1)
    IN  IF i <= Len(m) /\ ~InstrumentLess(k, m[i].key)
        THEN [m EXCEPT ![i].val = @ + w]
        ELSE SubSeq(m, 1, i - 1) \o <<[key |-> k, val |-> 0 + w]>>
                 \o SubSeq(m, i, Len(m))

\* line 82 run for one instrument and one weight
Inst_Add ==
    /\ \E k \in KeyInstruments, w \in KeyWeights :
          /\ <<k, w>> \notin applied
          /\ weight_map' = MapAddTo(weight_map, k, w)
          /\ applied' = applied \cup {<<k, w>>}
    /\ UNCHANGED <<engineVars, state_mutex_, inputVars, adminVars, obsVars,
                   last, histVars, wireVars, stratVars>>

NextInstrument == Inst_Add

SpecInstrument == Init /\ [][NextInstrument]_vars

-----------------------------------------------------------------------------
(* DummyStrategy: a signal on every price change (strategy-lab) *)

\* the instrument ids and the prices the market feed delivers
InstrumentIds == {1, 2}
Prices        == {R(100, 1), R(201, 2)}

\* a PriceUpdateView, by what get_instrument_id() and get_price() return
Updates == [instrument_id : InstrumentIds, price : Prices]

\* a MarketDataBatchView: count() updates, read with at(i)
Batches == UNION {[1..n -> Updates] : n \in 0..3}

\* trading::Allocation(source, id) followed by the update_position calls made on it
Allocation(source, id, calls) == [source |-> source, id |-> id, positions |-> calls]

\* the locals of on_market_update before the loop, over the member last_prices_
LoopStart(last_prices) ==
    [last_prices          |-> last_prices,
     signal_generated     |-> FALSE,
     new_weight           |-> R(0, 1),
     signal_instrument_id |-> 0]

\* a loop body that lets the first signal of the batch stand
LoopBody_m(st, update) ==
    LET instrument_id == update.instrument_id
        current_price == update.price
        known         == instrument_id \in DOMAIN st.last_prices
        rose          == known /\ RGt(current_price, st.last_prices[instrument_id])
        fell          == known /\ ~rose /\ RLt(current_price, st.last_prices[instrument_id])
        fresh         == (rose \/ fell) /\ ~st.signal_generated
    IN  [last_prices          |-> Put(st.last_prices, instrument_id, current_price),
         signal_generated     |-> st.signal_generated \/ rose \/ fell,
         new_weight           |-> IF ~fresh THEN st.new_weight
                                  ELSE IF rose THEN R(1, 1) ELSE R(-1, 1),
         signal_instrument_id |-> IF fresh THEN instrument_id
                                  ELSE st.signal_instrument_id]

\* one pass of the loop body for the update at(i)
LoopBody(st, update) ==
    LET instrument_id == update.instrument_id
        current_price == update.price
        known         == instrument_id \in DOMAIN st.last_prices
        rose          == known /\ RGt(current_price, st.last_prices[instrument_id])
        fell          == known /\ ~rose /\ RLt(current_price, st.last_prices[instrument_id])
    IN  [last_prices          |-> Put(st.last_prices, instrument_id, current_price),
         signal_generated     |-> st.signal_generated \/ rose \/ fell,
         new_weight           |-> IF rose THEN R(1, 1)
                                  ELSE IF fell THEN R(-1, 1) ELSE st.new_weight,
         signal_instrument_id |-> IF rose \/ fell THEN instrument_id
                                  ELSE st.signal_instrument_id]

\* for (size_t i = 0; i < batch.count(); ++i), from the update at position i on
RECURSIVE Loop(_, _, _)
Loop(st, b, i) ==
    IF i > Len(b) THEN st ELSE Loop(LoopBody(st, b[i]), b, i + 1)

\* the value returned after the loop
Returned(st) ==
    IF st.signal_generated
    THEN Allocation("dummy_strategy", 0,
                    <<[instrument_id |-> st.signal_instrument_id,
                       quantity      |-> st.new_weight]>>)
    ELSE nullptr

\* DummyStrategy::on_market_update(batch), one whole call
on_market_update ==
    /\ \E b \in Batches :
          LET st == Loop(LoopStart(last_prices_), b, 1)
          IN  /\ batch' = b
              /\ last_prices_' = st.last_prices
              /\ allocation' = Returned(st)
    /\ UNCHANGED <<engineVars, state_mutex_, inputVars, adminVars, obsVars,
                   last, histVars, wireVars, weight_map, applied>>

NextStrategy == on_market_update

SpecStrategy == Init /\ [][NextStrategy]_vars

-----------------------------------------------------------------------------
(* The aggregate as the specification states it *)

\* the scalar as the specification words it:
\* clamp(kellyFraction * rawKelly, -2, +2), rawKelly = 0 if volatility <= 1e-6
StatedScalar(params, kelly_fraction) ==
    LET rawKelly == IF RLe(params.sigma, R(1, 1000000)) THEN R(0, 1)
                    ELSE RDiv(params.mu, RMul(params.sigma, params.sigma))
        scalar   == RMul(kelly_fraction, rawKelly)
    IN  IF RGt(scalar, R(2, 1)) THEN R(2, 1)
        ELSE IF RLt(scalar, R(-2, 1)) THEN R(-2, 1)
        ELSE scalar

\* the sum over the clients cs of their weight for instrument i times their scalar
RECURSIVE StatedSum(_, _, _, _, _)
StatedSum(cs, i, store, reg, kelly_fraction) ==
    IF cs = {} THEN R(0, 1)
    ELSE LET c    == CHOOSE x \in cs : TRUE
             rest == StatedSum(cs \ {c}, i, store, reg, kelly_fraction)
         IN  IF i \in DOMAIN store[c].target_weights
             THEN RAdd(rest, RMul(store[c].target_weights[i],
                                  StatedScalar(reg[c], kelly_fraction)))
             ELSE rest

StatedAggregate(store, reg, kelly_fraction) ==
    [i \in UNION {DOMAIN store[c].target_weights : c \in DOMAIN store} |->
        StatedSum(DOMAIN store, i, store, reg, kelly_fraction)]

-----------------------------------------------------------------------------
(* Properties of the two threads sharing the engine (Spec) *)

InCritical == pcIn \in {"write", "recalc", "ret"}
AdCritical == pcAd \in {"add_body", "rm_reg", "rm_store"}

\* C1: at most one of on_portfolio_received, add_client and remove_client is
\* inside its body at a time, the one inside owns state_mutex_, and a
\* recompute never runs while a removal has erased the registry entry but not
\* yet the stored portfolio.
C1_MutualExclusion ==
    /\ ~(InCritical /\ AdCritical)
    /\ InCritical => state_mutex_ = "input"
    /\ AdCritical => state_mutex_ = "admin"
    /\ pcIn = "recalc" => pcAd # "rm_store"

\* a removal is half applied (registry entry erased, stored portfolio not
\* yet) while the input thread waits for the lock with a portfolio in hand
C1_Witness ==
    /\ pcAd = "rm_store"
    /\ req.id \in DOMAIN client_portfolios_
    /\ pcIn = "call"

\* C2: from the store write to the return, registry and store change only by
\* the call's own steps, and the aggregate returned is the recompute over the
\* registry and store as they were right after p was written, p included.
C2_AtomicUpdate ==
    /\ pcIn = "recalc" =>
          /\ client_portfolios_ = written.store
          /\ registry_ = written.registry
    /\ pcIn \in {"ret", "publish"} =>
          /\ written.store[p.multiplexer_id] = p
          /\ aggregated = Recalculate(written.store, written.registry,
                                      config_.kelly_fraction).result
          /\ p.multiplexer_id \in DOMAIN used
          /\ DOMAIN p.target_weights \subseteq DOMAIN aggregated.target_weights
    /\ pcIn = "ret" =>
          /\ client_portfolios_ = written.store
          /\ registry_ = Recalculate(written.store, written.registry,
                                     config_.kelly_fraction).registry

\* an update has returned its aggregate while an admin command for the same
\* client waits for the lock
C2_Witness ==
    /\ pcIn = "ret"
    /\ pcAd \in {"add_call", "rm_call"}
    /\ req.id = p.multiplexer_id
    /\ Cardinality(DOMAIN used) = 2

\* C3: when remove_client(id) completes, id is in neither the registry nor
\* the store; and no aggregate returned afterwards has a contribution from an
\* id whose stored portfolio was purged, until id stores a portfolio again.
C3_RemovalPurges ==
    /\ [][(pcAd = "rm_store" /\ pcAd' = "send") =>
            /\ req.id \notin DOMAIN registry_'
            /\ req.id \notin DOMAIN client_portfolios_']_vars
    /\ [](purged \cap DOMAIN client_portfolios_ = {})
    /\ [](pcIn = "ret" => DOMAIN used \cap purged = {})

\* an update of another client returns an aggregate after a removal erased a
\* stored portfolio
C3_Witness ==
    /\ pcIn = "ret"
    /\ purged # {}
    /\ p.multiplexer_id \notin purged
    /\ DOMAIN used # {}

\* C4: a recompute that meets a stored client without registry entry
\* registers it with (0.05, 0.20) before the lock is released and scales it
\* with that entry; the entry stays, with those values, in every later state
\* and recompute until an admin add/update or remove of that client.
C4_AutoRegistration ==
    /\ \A c \in autoRegistered :
          /\ c \in DOMAIN registry_
          /\ registry_[c] = [mu |-> R(5, 100), sigma |-> R(20, 100)]
    /\ pcIn = "ret" =>
          /\ state_mutex_ = "input"
          /\ DOMAIN written.store \ DOMAIN written.registry \subseteq autoRegistered
          /\ \A c \in DOMAIN used :
                /\ c \in DOMAIN registry_
                /\ used[c].params = registry_[c]
                /\ c \in autoRegistered =>
                      used[c].params = [mu |-> R(5, 100), sigma |-> R(20, 100)]

\* a later recompute finds, and uses, an entry an earlier recompute registered
C4_Witness ==
    /\ pcIn = "ret"
    /\ \E c \in autoRegistered :
          /\ c \in DOMAIN written.registry
          /\ c \in DOMAIN used
          /\ c # p.multiplexer_id

\* C9: whenever nobody holds the lock, every client with a stored portfolio
\* has a registry entry.
C9_StoreWithinRegistry ==
    state_mutex_ = "free" => DOMAIN client_portfolios_ \subseteq DOMAIN registry_

\* the lock is free and a stored client owes its registry entry to a recompute
C9_Witness ==
    /\ state_mutex_ = "free"
    /\ \E c \in DOMAIN client_portfolios_ : c \in autoRegistered

\* what C10 asks of an aggregate: nothing from an id whose REMOVE was
\* answered, and for an id whose ADD/UPDATE was answered the answered values
ReflectsAcked ==
    /\ DOMAIN used \cap ackedRemoved = {}
    /\ \A id \in DOMAIN used \cap DOMAIN ackedAdded :
          used[id].params = ackedAdded[id]

\* C10 as stated: an aggregate handed to the publisher reflects every admin
\* change acknowledged before the publication.
C10_PublishedReflectsAcked ==
    (pcIn = "publish" /\ aggregated.multiplexer_id # "") => ReflectsAcked

\* C10 as amended: an aggregate reflects every admin change acknowledged
\* before on_portfolio_received returned it; the publication follows the
\* release of the lock.
C10_ReturnedReflectsAcked ==
    pcIn = "ret" => ReflectsAcked

\* an aggregate is returned after both a REMOVE and an ADD/UPDATE of clients
\* were answered, and it uses the answered parameters
C10_Witness ==
    /\ pcIn = "ret"
    /\ ackedRemoved # {}
    /\ DOMAIN used \cap DOMAIN ackedAdded # {}

\* C11: the store holds, for each client id, exactly the portfolio last
\* passed to on_portfolio_received for it; and in every aggregate returned,
\* an instrument that a client's latest portfolio does not hold (one that only
\* a replaced snapshot held included) is the sum over the other clients alone.
C11_LatestOnly ==
    /\ client_portfolios_ = latest
    /\ pcIn = "ret" =>
          /\ client_portfolios_[p.multiplexer_id] = p
          /\ dropped \cap DOMAIN client_portfolios_[p.multiplexer_id].target_weights = {}
          /\ \A c \in DOMAIN latest :
                \A i \in DOMAIN aggregated.target_weights
                               \ DOMAIN latest[c].target_weights :
                    aggregated.target_weights[i] =
                        StatedSum(DOMAIN client_portfolios_ \ {c}, i,
                                  client_portfolios_, registry_,
                                  config_.kelly_fraction)

\* a client scaled by a non-zero scalar has replaced a portfolio by one that
\* lacks an instrument of it, and the aggregate still has that instrument
\* from another client
C11_Witness ==
    /\ pcIn = "ret"
    /\ used[p.multiplexer_id].scalar # R(0, 1)
    /\ \E i \in dropped : i \in DOMAIN aggregated.target_weights

\* C12: the steps of add_client(id, mu, sigma) leave the store, kelly_fraction
\* and every other registry entry as they are, make the entry of id exactly
\* (mu, sigma), and produce no aggregate: the input thread's position, the
\* aggregate it holds and what its last recompute used are untouched.
C12_AddClientFrame ==
    [][(pcAd \in {"add_call", "add_body"} /\ pcAd' # pcAd) =>
          /\ client_portfolios_' = client_portfolios_
          /\ config_' = config_
          /\ DOMAIN registry_' \subseteq DOMAIN registry_ \cup {req.id}
          /\ \A c \in DOMAIN registry_ \ {req.id} :
                c \in DOMAIN registry_' /\ registry_'[c] = registry_[c]
          /\ pcAd' = "send" =>
                registry_'[req.id] = [mu |-> req.mu, sigma |-> req.sigma]
          /\ <<pcIn, p, aggregated, used>>' = <<pcIn, p, aggregated, used>>]_vars

\* add_client has completed for a client that holds a stored portfolio next
\* to another client's, while a returned aggregate waits to be published
C12_Witness ==
    /\ pcAd = "send"
    /\ response = Reply("OK", <<"Client updated">>)
    /\ req.id \in DOMAIN client_portfolios_
    /\ Cardinality(DOMAIN client_portfolios_) = 2
    /\ pcIn = "publish"

\* C13: the first aggregate returned after add_client(id, mu, sigma) completed
\* with id in the store, no admin change to id in between, comes from a
\* recompute that found (mu, sigma) for id, scaled id's stored weights with
\* the scalar the specification derives from (mu, sigma), and is the stated
\* aggregate under those parameters, whichever client sent the update.
C13_LazyPickup ==
    pcIn = "ret" =>
        \A id \in DOMAIN pickup :
            /\ pickup[id].stage = "picked"
            /\ id \in DOMAIN used
            /\ used[id].params = pickup[id].params
            /\ used[id].scalar =
                   StatedScalar(pickup[id].params, config_.kelly_fraction)
            /\ aggregated.target_weights =
                   StatedAggregate(client_portfolios_,
                                   Put(registry_, id, pickup[id].params),
                                   config_.kelly_fraction)

\* another client's update is the next call after an add_client that changed
\* the scalar of a stored client
C13_Witness ==
    /\ pcIn = "ret"
    /\ \E id \in DOMAIN pickup :
          /\ id # p.multiplexer_id
          /\ pickup[id].params = [mu |-> R(10, 1), sigma |-> R(1, 100)]
          /\ used[id].scalar = R(2, 1)

\* C14: the aggregate on_portfolio_received returns carries the id
\* "KellyMux_Aggregated" whatever id the portfolio passed carries; the
\* recompute it runs never meets an empty store, the only store for which
\* the recompute returns the empty id.
C14_AggregateIdentity ==
    /\ pcIn = "recalc" =>
          /\ p.multiplexer_id \in DOMAIN client_portfolios_
          /\ Recalculate(EmptyMap, registry_, config_.kelly_fraction).result
                 = [multiplexer_id |-> "", target_weights |-> EmptyMap]
    /\ pcIn \in {"ret", "publish"} =>
          /\ aggregated.multiplexer_id = "KellyMux_Aggregated"
          /\ aggregated.multiplexer_id # p.multiplexer_id

\* a portfolio of a client nobody registered was passed while the store was
\* empty, and the aggregate returned carries the sentinel id
C14_Witness ==
    /\ pcIn = "ret"
    /\ p.multiplexer_id = "X"
    /\ DOMAIN client_portfolios_ = {"X"}
    /\ aggregated.multiplexer_id = "KellyMux_Aggregated"

\* the text msg contains the piece word
Mentions(msg, word) == \E k \in 1..Len(msg) : msg[k] = word

\* C18: once a command named ADD or UPDATE that carries id, mu and sigma is
\* served, the admin thread has made exactly one engine call,
\* add_client(id, mu, sigma) with the values of the command, the registry
\* entry of id holds them, and the reply has status OK; once a REMOVE that
\* carries id is served, it has made exactly one call, remove_client(id), and
\* the reply has status OK. No request leads to more than one call.
C18_AdminDispatch ==
    /\ Len(engine_calls) <= 1
    /\ (pcAd = "send" /\ Parses(j_req) /\ Cmd(j_req) \in {"ADD", "UPDATE"}
          /\ {"id", "mu", "sigma"} \subseteq DOMAIN j_req) =>
            /\ engine_calls = << [call |-> "add_client", id |-> j_req.id,
                                  mu |-> j_req.mu, sigma |-> j_req.sigma] >>
            /\ registry_[j_req.id] = [mu |-> j_req.mu, sigma |-> j_req.sigma]
            /\ response.status = "OK"
    /\ (pcAd = "send" /\ Parses(j_req) /\ Cmd(j_req) = "REMOVE"
          /\ "id" \in DOMAIN j_req) =>
            /\ engine_calls = << [call |-> "remove_client", id |-> j_req.id] >>
            /\ response.status = "OK"

\* an UPDATE has been served for a client that sent no portfolio
C18_Witness ==
    /\ pcAd = "send"
    /\ Cmd(j_req) = "UPDATE"
    /\ response.status = "OK"
    /\ Len(engine_calls) = 1
    /\ j_req.id \notin DOMAIN client_portfolios_

\* a parsed request whose command name is none of ADD, UPDATE, REMOVE
UnknownCmd(r) == Parses(r) /\ Cmd(r) \notin {"ADD", "UPDATE", "REMOVE"}

\* a step of the admin thread serving such a request
UnknownServed ==
    /\ pcAd' # pcAd
    /\ \/ pcAd = "recv" /\ UnknownCmd(j_req')
       \/ pcAd = "send" /\ UnknownCmd(j_req)

\* C19 as stated: serving a request with an unknown (or missing) command
\* name changes no engine state and makes no engine call, and the reply has
\* status ERROR and a msg that contains the command name received.
C19_UnknownCommandNamed ==
    /\ [][UnknownServed => (engineVars' = engineVars
                              /\ state_mutex_' = state_mutex_)]_vars
    /\ []((pcAd = "send" /\ UnknownCmd(j_req)) =>
            /\ engine_calls = <<>>
            /\ response.status = "ERROR"
            /\ Cmd(j_req) # "" => Mentions(response.msg, Cmd(j_req)))

\* C19 as amended: the same, except that the msg of the reply is the fixed
\* text "Unknown command", whatever the name received.
C19_UnknownCommandRejected ==
    /\ [][UnknownServed => (engineVars' = engineVars
                              /\ state_mutex_' = state_mutex_)]_vars
    /\ []((pcAd = "send" /\ UnknownCmd(j_req)) =>
            /\ engine_calls = <<>>
            /\ response = [status |-> "ERROR", msg |-> <<"Unknown command">>])

\* a request named FLUSH is about to be answered while the engine holds
\* portfolios
C19_Witness ==
    /\ pcAd = "send"
    /\ Cmd(j_req) = "FLUSH"
    /\ response.status = "ERROR"
    /\ DOMAIN client_portfolios_ # {}

\* a request that does not parse, or an ADD / UPDATE / REMOVE that lacks a
\* field it requires
Malformed(r) ==
    \/ ~Parses(r)
    \/ Cmd(r) \in {"ADD", "UPDATE"} /\ ~({"id", "mu", "sigma"} \subseteq DOMAIN r)
    \/ Cmd(r) = "REMOVE" /\ "id" \notin DOMAIN r

\* the fields the command of r requires and r lacks
MissingKeys(r) ==
    (IF Cmd(r) = "REMOVE" THEN {"id"} ELSE {"id", "mu", "sigma"}) \ DOMAIN r

C21_InputWiring ==
    /\ [](in_calls <= 1 /\ Len(outbox) <= 1)
    /\ [](pcIn = "call" => (in_calls = 0 /\ outbox = <<>>))
    /\ [](pcIn \in {"write", "recalc", "ret", "publish"} =>
             (in_calls = 1 /\ outbox = <<>>))
    /\ [][(pcIn = "publish" /\ pcIn' = "recv") =>
             /\ in_calls' = 1
             /\ written.store[p.multiplexer_id] = p
             /\ outbox' = IF aggregated.multiplexer_id = ""
                          THEN <<>> ELSE <<aggregated>>]_vars

\* the callback has returned after publishing an aggregate of two instruments
C21_Witness ==
    /\ pcIn = "recv"
    /\ in_calls = 1
    /\ Len(outbox) = 1
    /\ outbox[1].multiplexer_id = "KellyMux_Aggregated"
    /\ DOMAIN outbox[1].target_weights = {AAPL, MSFT}

C23_LockOnlyDuringCall ==
    /\ pcIn \in {"recv", "call", "publish"} => state_mutex_ # "input"
    /\ pcAd \in {"recv", "add_call", "rm_call", "send"} => state_mutex_ # "admin"
    /\ state_mutex_ = "input" => pcIn \in {"write", "recalc", "ret"}
    /\ state_mutex_ = "admin" => pcAd \in {"add_body", "rm_reg", "rm_store"}

\* the input thread publishes while the admin thread is inside remove_client,
\* owning the mutex
C23_Witness ==
    /\ pcIn = "publish"
    /\ pcAd = "rm_store"
    /\ state_mutex_ = "admin"

\* the admin thread has completed remove_client(id) and the input thread
\* has completed on_portfolio_received for a portfolio of the same id, each
\* as the last call of its thread
RemoveRacedUpdate ==
    /\ pcAd = "send"
    /\ req.call = "remove_client"
    /\ pcIn \in {"ret", "publish"}
    /\ p.multiplexer_id = req.id

\* C25: when on_portfolio_received has recomputed for a portfolio whose
\* owner had no registry entry (it was removed, or never known), the owner
\* is in the store with that portfolio and in the registry with the default
\* parameters (0.05, 0.20), which the recompute used for it; and once
\* remove_client(id) and on_portfolio_received from id have both completed
\* as the last calls of their threads, id is either absent from both maps
\* or present in both with the default parameters.
C25_RemovedThenRecreated ==
    /\ (pcIn = "ret" /\ p.multiplexer_id \notin DOMAIN written.registry) =>
           /\ p.multiplexer_id \in DOMAIN client_portfolios_
           /\ client_portfolios_[p.multiplexer_id] = p
           /\ p.multiplexer_id \in DOMAIN registry_
           /\ registry_[p.multiplexer_id] = DefaultParams
           /\ used[p.multiplexer_id].params = DefaultParams
    /\ RemoveRacedUpdate =>
           \/ /\ req.id \notin DOMAIN registry_
              /\ req.id \notin DOMAIN client_portfolios_
           \/ /\ req.id \in DOMAIN registry_
              /\ req.id \in DOMAIN client_portfolios_
              /\ registry_[req.id] = DefaultParams
              /\ client_portfolios_[req.id] = p

\* StratA, constructed with (0.05, 0.10), was removed while its portfolio
\* waited for the mutex, and is back in both maps with the defaults
C25_Witness ==
    /\ RemoveRacedUpdate
    /\ req.id = "StratA"
    /\ pcIn = "publish"
    /\ "StratA" \notin DOMAIN written.registry
    /\ registry_["StratA"] = DefaultParams
    /\ registry_["StratA"] # ParamsStratA
    /\ client_portfolios_["StratA"] = p

\* C26: a recompute leaves every registry entry that exists when it starts
\* as it is, and the (mu, sigma) of an answered ADD/UPDATE stay in the
\* registry until the admin thread changes that client again.
C26_UpsertOnMissOnly ==
    /\ [](\A id \in DOMAIN ackedAdded :
             id \in DOMAIN registry_ /\ registry_[id] = ackedAdded[id])
    /\ [][(pcIn = "recalc" /\ pcIn' = "ret") =>
             /\ DOMAIN registry_' = DOMAIN registry_ \cup DOMAIN client_portfolios_
             /\ \A c \in DOMAIN registry_ : registry_'[c] = registry_[c]]_vars

\* X was given (10, 0.01) by an answered ADD, and a recompute over X's
\* portfolio has used those parameters
C26_Witness ==
    /\ pcIn = "ret"
    /\ p.multiplexer_id = "X"
    /\ "X" \in DOMAIN ackedAdded
    /\ ackedAdded["X"] = StrategyParams(R(10, 1), R(1, 100))
    /\ used["X"].params = ackedAdded["X"]

-----------------------------------------------------------------------------
(* Properties of the two listeners under faults (SpecIO) *)

\* the admin thread is between the receipt of a request and its reply
AdServing ==
    pcAd \in {"add_call", "add_body", "rm_call", "rm_reg", "rm_store", "send"}

\* C31: the admin listener never owes more than one reply; it receives a
\* request only when it owes none, and owes one all the while it serves the
\* request; a reply is sent from the sending position only, with status OK
\* or ERROR, and settles the request; a request that does not parse or that
\* lacks a field goes straight to an ERROR reply; the thread comes back to
\* recv through the sending position only, and the loop ends only where
\* recv or send is called, and for good.
C31_RequestReplyLockstep ==
    /\ [](ad_owed \in {0, 1})
    /\ [](AdServing => ad_owed = 1)
    /\ [][(ad_owed' = ad_owed + 1) =>
             (pcAd = "recv" /\ ad_owed = 0 /\ AdServing')]_vars
    /\ [][(ad_owed' = ad_owed - 1) =>
             /\ pcAd = "send" /\ pcAd' = "recv"
             /\ response.status \in {"OK", "ERROR"}]_vars
    /\ [][(ad_owed' = ad_owed + 1 /\ Malformed(j_req')) =>
             (pcAd' = "send" /\ response'.status = "ERROR")]_vars
    /\ [][(pcAd # "recv" /\ pcAd' = "recv") => pcAd = "send"]_vars
    /\ [][(pcAd # "stopped" /\ pcAd' = "stopped") =>
             (pcAd \in {"recv", "send"} /\ ad_owed' = ad_owed)]_vars
    /\ [][pcAd = "stopped" => (pcAd' = "stopped" /\ ad_owed' = ad_owed)]_vars

\* an ADD has been answered, and the loop has ended on a fault of the socket
\* with the reply to a later request owed
C31_Witness ==
    /\ pcAd = "stopped"
    /\ ad_owed = 1
    /\ DOMAIN ackedAdded # {}

\* C32: after a message that did not parse the input thread is at recv
\* again, where it can take the next message, with no call of
\* on_portfolio_received made and nothing published for that message; the
\* step that drops it changes neither the registry nor the store nor
\* kelly_fraction nor the mutex; the input loop ends only from recv on a
\* ZMQ error, and once it has ended it stays ended, makes no call, publishes
\* nothing, holds no lock, and no stored portfolio is added or replaced.
C32_DroppedMessage ==
    /\ [](in_last = "dropped" =>
             /\ pcIn = "recv" /\ p = NoPortfolio
             /\ in_calls = 0 /\ outbox = <<>>
             /\ ENABLED In_Recv)
    /\ [][(in_last' = "dropped" /\ in_last # "dropped") =>
             /\ pcIn = "recv" /\ pcIn' = "recv"
             /\ engineVars' = engineVars
             /\ state_mutex_' = state_mutex_]_vars
    /\ [][(pcIn = "recv" /\ pcIn' = "recv" /\ pcAd' = pcAd) =>
             engineVars' = engineVars]_vars
    /\ [](pcIn = "stopped" <=> in_last = "zmq_error")
    /\ [][(pcIn # "stopped" /\ pcIn' = "stopped") => pcIn = "recv"]_vars
    /\ [](pcIn = "stopped" => state_mutex_ # "input")
    /\ [][pcIn = "stopped" =>
             /\ pcIn' = "stopped"
             /\ in_calls' = in_calls /\ outbox' = outbox
             /\ \A c \in DOMAIN client_portfolios_' :
                    /\ c \in DOMAIN client_portfolios_
                    /\ client_portfolios_'[c] = client_portfolios_[c]]_vars

\* X's portfolio is stored, and the message received after it was dropped
C32_Witness ==
    /\ in_last = "dropped"
    /\ pcIn = "recv"
    /\ "X" \in DOMAIN client_portfolios_
    /\ "X" \in DOMAIN registry_
    /\ in_calls = 0
    /\ outbox = <<>>

-----------------------------------------------------------------------------
(* Properties of the engine's arithmetic (SpecEngine) *)

\* the scenario of the specification: StratA and StratB as main registers
\* them, kelly_fraction 0.3, each has sent {AAPL: 1.0}, nobody else has sent
ExampleScenario ==
    /\ config_.kelly_fraction = R(3, 10)
    /\ DOMAIN client_portfolios_ = {"StratA", "StratB"}
    /\ registry_["StratA"] = [mu |-> R(5, 100), sigma |-> R(10, 100)]
    /\ registry_["StratB"] = [mu |-> R(10, 100), sigma |-> R(20, 100)]
    /\ client_portfolios_["StratA"].target_weights = (AAPL :> R(1, 1))
    /\ client_portfolios_["StratB"].target_weights = (AAPL :> R(1, 1))

C6_Clamp ==
    \A c \in DOMAIN used :
        /\ RLe(R(-2, 1), used[c].scalar)
        /\ RLe(used[c].scalar, R(2, 1))
        /\ (config_.kelly_fraction = R(1, 1)
              /\ used[c].params = [mu |-> R(10, 1), sigma |-> R(1, 100)])
               => used[c].scalar = R(2, 1)
        /\ (config_.kelly_fraction = R(1, 1)
              /\ used[c].params = [mu |-> R(-10, 1), sigma |-> R(1, 100)])
               => used[c].scalar = R(-2, 1)

\* a client with mu = 10, sigma = 0.01 under kelly_fraction 1 was scaled by
\* exactly 2, and an aggregate weight nevertheless exceeds 2
C6_Witness ==
    /\ pcIn = "publish"
    /\ config_.kelly_fraction = R(1, 1)
    /\ \E c \in DOMAIN used :
          /\ used[c].params = [mu |-> R(10, 1), sigma |-> R(1, 100)]
          /\ used[c].scalar = R(2, 1)
          /\ \E i \in DOMAIN client_portfolios_[c].target_weights :
                RGt(aggregated.target_weights[i], R(2, 1))

\* C7: a client whose sigma is <= 1e-6 (zero and negative included) gets
\* scalar 0 without a division, and every instrument of the aggregate is the
\* sum over the other clients alone.
C7_ZeroVolatilityGuard ==
    \A c \in DOMAIN used :
        RLe(used[c].params.sigma, R(1, 1000000)) =>
            /\ used[c].scalar = R(0, 1)
            /\ ~used[c].div
            /\ \A i \in DOMAIN client_portfolios_[c].target_weights :
                  /\ RMul(client_portfolios_[c].target_weights[i],
                          used[c].scalar) = R(0, 1)
                  /\ aggregated.target_weights[i] =
                         StatedSum(DOMAIN client_portfolios_ \ {c}, i,
                                   client_portfolios_, registry_,
                                   config_.kelly_fraction)

\* a client with sigma = 0 and mu # 0 holding weights was part of a recompute
\* together with another client
C7_Witness ==
    /\ pcIn = "publish"
    /\ \E c \in DOMAIN used :
          /\ used[c].params.sigma = R(0, 1)
          /\ used[c].params.mu # R(0, 1)
          /\ DOMAIN client_portfolios_[c].target_weights # {}
          /\ DOMAIN used # {c}

\* C8: when a client that had no registry entry sends the same portfolio
\* twice in a row, with no admin call in between, the second call returns the
\* same aggregate from the same scalars and leaves registry and store as the
\* first call left them.
C8_AutoRegistrationStable ==
    [][(pcIn = "recv" /\ pcIn' = "publish" /\ last.made /\ last.unregistered
          /\ p' = p) =>
            /\ aggregated' = aggregated
            /\ used' = used
            /\ registry_' = registry_
            /\ client_portfolios_' = client_portfolios_]_vars

\* the second of two such calls has returned
C8_Witness ==
    /\ pcIn = "publish"
    /\ last.made
    /\ last.unregistered
    /\ last.repeat
    /\ DOMAIN p.target_weights # {}

\* C15: on_portfolio_received on an empty store, for a client without
\* registry entry and with an empty weight map, returns the aggregate
\* ("KellyMux_Aggregated", {}), leaves that portfolio as the only stored one
\* and the client registered with (0.05, 0.20), the other entries untouched.
C15_EmptyState ==
    [][(pcIn = "recv" /\ pcIn' = "publish"
          /\ DOMAIN client_portfolios_ = {}
          /\ p'.multiplexer_id \notin DOMAIN registry_
          /\ DOMAIN p'.target_weights = {}) =>
            /\ aggregated' = [multiplexer_id |-> "KellyMux_Aggregated",
                              target_weights |-> EmptyMap]
            /\ client_portfolios_' = (p'.multiplexer_id :> p')
            /\ DOMAIN registry_' = DOMAIN registry_ \cup {p'.multiplexer_id}
            /\ registry_'[p'.multiplexer_id] = [mu |-> R(5, 100), sigma |-> R(20, 100)]
            /\ \A c \in DOMAIN registry_ : registry_'[c] = registry_[c]]_vars

\* that call has just returned
C15_Witness ==
    /\ pcIn = "publish"
    /\ last.made /\ last.unregistered /\ ~last.repeat
    /\ p.target_weights = EmptyMap
    /\ DOMAIN client_portfolios_ = {p.multiplexer_id}
    /\ aggregated.target_weights = EmptyMap

\* C16: an add_client(id, mu, sigma) that directly follows an add_client with
\* the same arguments changes neither the registry nor the store nor
\* kelly_fraction.
C16_IdempotentAdd ==
    [][(pcIn = "recv" /\ lastAdmin'.call = "add_client" /\ lastAdmin'.again) =>
            /\ registry_' = registry_
            /\ client_portfolios_' = client_portfolios_
            /\ config_' = config_]_vars

\* the second of two such calls has returned, for a client that holds a
\* stored portfolio
C16_Witness ==
    /\ lastAdmin.call = "add_client"
    /\ lastAdmin.again
    /\ lastAdmin.id \in DOMAIN client_portfolios_
    /\ registry_[lastAdmin.id] = [mu |-> lastAdmin.mu, sigma |-> lastAdmin.sigma]

\* C17: remove_client(id) returns for every id; when id is in neither the
\* registry nor the store, and when the call directly follows another
\* remove_client(id), it changes no engine state.
C17_RemoveUnknownNoop ==
    [][(pcIn = "recv" /\ lastAdmin'.call = "remove_client"
          /\ (lastAdmin'.absent \/ lastAdmin'.again)) =>
            engineVars' = engineVars]_vars

\* the second of two remove_client calls for one id has returned, other
\* clients being registered and stored
C17_Witness ==
    /\ lastAdmin.call = "remove_client"
    /\ lastAdmin.again
    /\ lastAdmin.absent
    /\ DOMAIN client_portfolios_ # {}
    /\ lastAdmin.id \notin DOMAIN registry_ \cup DOMAIN client_portfolios_

\* the instruments of the stored portfolios
StoredInstruments ==
    UNION { DOMAIN client_portfolios_[c].target_weights :
                c \in DOMAIN client_portfolios_ }

\* C27: the aggregate on_portfolio_received returns has exactly the
\* instruments of the stored portfolios as keys, zero sums included; the
\* recompute used exactly the stored clients, and the aggregate is the one
\* the registry entries of the stored clients alone give.
C27_OnlyStoredContribute ==
    pcIn = "publish" =>
        /\ DOMAIN aggregated.target_weights = StoredInstruments
        /\ DOMAIN used = DOMAIN client_portfolios_
        /\ aggregated.target_weights =
               StatedAggregate(client_portfolios_,
                   [c \in DOMAIN client_portfolios_ |-> registry_[c]],
                   config_.kelly_fraction)

\* StratB is registered and has no portfolio; X, with sigma 0, is the only
\* holder of MSFT, which is a key of the aggregate with the sum 0
C27_Witness ==
    /\ pcIn = "publish"
    /\ "StratB" \in DOMAIN registry_ \ DOMAIN client_portfolios_
    /\ "X" \in DOMAIN client_portfolios_
    /\ registry_["X"].sigma = R(0, 1)
    /\ MSFT \in DOMAIN client_portfolios_["X"].target_weights
    /\ \A c \in DOMAIN client_portfolios_ \ {"X"} :
           MSFT \notin DOMAIN client_portfolios_[c].target_weights
    /\ MSFT \in DOMAIN aggregated.target_weights
    /\ aggregated.target_weights[MSFT] = Zero
    /\ AAPL \in DOMAIN aggregated.target_weights
    /\ aggregated.target_weights[AAPL] # Zero

\* C28: the aggregate a call of on_portfolio_received returns is the stated
\* sum over the store, the registry and kelly_fraction as the call leaves
\* them, whatever calls came before; a call that directly follows another
\* and leaves store and registry as it found them returns the aggregate the
\* other returned, and the recompute used the same values.
C28_StatelessRecompute ==
    [][(pcIn = "recv" /\ pcIn' = "publish") =>
          /\ aggregated' =
                 TargetPortfolio("KellyMux_Aggregated",
                     StatedAggregate(client_portfolios_', registry_',
                                     config_'.kelly_fraction))
          /\ (/\ aggregated # NoPortfolio
              /\ client_portfolios_' = client_portfolios_
              /\ registry_' = registry_) =>
                 (aggregated' = aggregated /\ used' = used)]_vars

\* a portfolio passed again right after the call that stored it has been
\* answered with the aggregate of two clients
C28_Witness ==
    /\ pcIn = "publish"
    /\ last.made /\ last.repeat
    /\ Cardinality(DOMAIN client_portfolios_) = 2
    /\ client_portfolios_[p.multiplexer_id] = p
    /\ \E c \in DOMAIN client_portfolios_ \ {p.multiplexer_id} :
           /\ DOMAIN client_portfolios_[c].target_weights = {AAPL, MSFT}
           /\ DOMAIN p.target_weights = {AAPL}
    /\ aggregated.target_weights[AAPL] # Zero

\* every order in which the clients of S can be iterated
RECURSIVE Orders(_)
Orders(S) ==
    IF S = {} THEN {<<>>}
    ELSE UNION { { <<c>> \o t : t \in Orders(S \ {c}) } : c \in S }

\* C29: the loop of the recompute, run over the stored clients in any
\* order from the store and registry the call started it on, gives the
\* per-instrument sums the call returned, the registry it left and the
\* values it used (exact arithmetic).
C29_OrderIndependence ==
    pcIn = "publish" =>
        \A keys \in Orders(DOMAIN written.store) :
            \E out \in { RecalcLoop(keys, written.store, config_.kelly_fraction,
                              [registry |-> written.registry,
                               weights  |-> EmptyMap,
                               used     |-> EmptyMap]) } :
                /\ out.weights = aggregated.target_weights
                /\ out.registry = registry_
                /\ out.used = used

\* three clients are stored, all holding AAPL, with scalars that differ and
\* with weight maps that differ
C29_Witness ==
    /\ pcIn = "publish"
    /\ DOMAIN client_portfolios_ = {"StratA", "StratB", "X"}
    /\ \A c \in DOMAIN client_portfolios_ :
           AAPL \in DOMAIN client_portfolios_[c].target_weights
    /\ used["StratA"].scalar # used["StratB"].scalar
    /\ used["StratB"].scalar # used["X"].scalar
    /\ client_portfolios_["StratA"].target_weights
           # client_portfolios_["X"].target_weights

\* C30: a call of on_portfolio_received(p) leaves p as the stored portfolio
\* of p's owner and every other stored portfolio as it was; it removes no
\* registry entry, changes none, adds default entries only and only for
\* stored clients, and leaves kelly_fraction as it was.
C30_PortfolioFrame ==
    [][(pcIn = "recv" /\ pcIn' = "publish") =>
          /\ DOMAIN client_portfolios_' =
                 DOMAIN client_portfolios_ \cup {p'.multiplexer_id}
          /\ client_portfolios_'[p'.multiplexer_id] = p'
          /\ \A c \in DOMAIN client_portfolios_ \ {p'.multiplexer_id} :
                 client_portfolios_'[c] = client_portfolios_[c]
          /\ DOMAIN registry_ \subseteq DOMAIN registry_'
          /\ \A c \in DOMAIN registry_ : registry_'[c] = registry_[c]
          /\ \A c \in DOMAIN registry_' \ DOMAIN registry_ :
                 /\ registry_'[c] = DefaultParams
                 /\ c \in DOMAIN client_portfolios_'
          /\ config_' = config_]_vars

\* a call for StratA has replaced its stored portfolio, with X stored and
\* registered by add_client and StratB registered only
C30_Witness ==
    /\ pcIn = "publish"
    /\ p.multiplexer_id = "StratA"
    /\ last.made /\ ~last.repeat /\ ~last.unregistered
    /\ DOMAIN client_portfolios_ = {"StratA", "X"}
    /\ registry_["X"] # DefaultParams
    /\ "StratB" \in DOMAIN registry_
    /\ DOMAIN client_portfolios_["X"].target_weights = {AAPL, MSFT}
    /\ DOMAIN p.target_weights = {AAPL}

-----------------------------------------------------------------------------
(* Properties of Instrument as a map key (SpecInstrument) *)

\* the lexicographic order over (type, symbol, exchange)
StatedLess(a, b) ==
    \/ StringLess(a.type, b.type)
    \/ a.type = b.type /\ StringLess(a.data.symbol, b.data.symbol)
    \/ /\ a.type = b.type
       /\ a.data.symbol = b.data.symbol
       /\ StringLess(a.data.exchange, b.data.exchange)

\* the instruments added so far, and the sum of the weights added for one
AppliedKeys == { x[1] : x \in applied }
AppliedSum(k) ==
    (IF <<k, 1>> \in applied THEN 1 ELSE 0)
        + (IF <<k, 2>> \in applied THEN 2 ELSE 0)

\* how many of a<b, b<a, a==b hold
HoldCount(a, b) ==
    (IF InstrumentLess(a, b) THEN 1 ELSE 0)
        + (IF InstrumentLess(b, a) THEN 1 ELSE 0)
        + (IF InstrumentEq(a, b) THEN 1 ELSE 0)

\* C24: over the instruments added to a map, operator< is the lexicographic
\* order over (type, symbol, exchange), it is transitive, exactly one of
\* a<b, b<a, a==b holds, and a==b holds exactly when the three fields
\* agree; the map has one entry per distinct instrument added, in strictly
\* increasing order, and the entry holds the sum of the weights added for
\* that instrument and for no other.
C24_InstrumentOrder ==
    /\ \A a, b \in AppliedKeys :
          /\ InstrumentLess(a, b) <=> StatedLess(a, b)
          /\ InstrumentEq(a, b) <=> a = b
          /\ HoldCount(a, b) = 1
          /\ InstrumentLess(a, b) =>
                 \A c \in AppliedKeys :
                     InstrumentLess(b, c) => InstrumentLess(a, c)
    /\ \A i, j \in 1..Len(weight_map) :
          i < j => InstrumentLess(weight_map[i].key, weight_map[j].key)
    /\ { weight_map[i].key : i \in 1..Len(weight_map) } = AppliedKeys
    /\ \A i \in 1..Len(weight_map) :
          weight_map[i].val = AppliedSum(weight_map[i].key)

\* two instruments that differ only in the case of the exchange are two
\* neighbouring entries, each holding the sum of two weights
C24_Witness ==
    \E i \in 1..(Len(weight_map) - 1) :
        /\ weight_map[i].key.type = weight_map[i + 1].key.type
        /\ weight_map[i].key.data.symbol = weight_map[i + 1].key.data.symbol
        /\ weight_map[i].key.data.exchange = <<78>>
        /\ weight_map[i + 1].key.data.exchange = <<110>>
        /\ weight_map[i].val = 3
        /\ weight_map[i + 1].val = 3

-----------------------------------------------------------------------------
(* Properties of DummyStrategy (SpecStrategy) *)

SetMax(S) == CHOOSE x \in S : \A y \in S : y <= x

\* the updates of b before position i that are for the instrument of b[i]
Earlier(b, i) == {j \in 1..(i - 1) : b[j].instrument_id = b[i].instrument_id}

\* a price has been recorded for the instrument of b[i] when b[i] is processed
\* by a strategy that held the prices lp when the batch arrived
Seen(lp, b, i) == Earlier(b, i) # {} \/ b[i].instrument_id \in DOMAIN lp

\* that previously recorded price
Recorded(lp, b, i) ==
    IF Earlier(b, i) # {} THEN b[SetMax(Earlier(b, i))].price
    ELSE lp[b[i].instrument_id]

\* the updates of b whose price differs from the previously recorded price of
\* the same instrument
Changed(lp, b) ==
    {i \in 1..Len(b) : Seen(lp, b, i) /\ b[i].price # Recorded(lp, b, i)}

\* C33: over any sequence of batches, the first price ever seen for an
\* instrument generates no signal and an unchanged price generates none; a
\* call of on_market_update returns an allocation if and only if at least
\* one update of its batch has a price different from the previously
\* recorded price of the same instrument; that allocation holds exactly one
\* position, for the instrument of the last such update of the batch, with
\* quantity +1.0 if that price rose and -1.0 if it fell; every update,
\* signalling or not, replaces the recorded last price of its instrument,
\* and the prices of the other instruments stay as they were.
C33_DummySignal ==
    [][LET b == batch'
           S == Changed(last_prices_, b)
           ids == {b[i].instrument_id : i \in 1..Len(b)}
       IN  /\ (\A i \in 1..Len(b) :
                   \/ ~Seen(last_prices_, b, i)
                   \/ b[i].price = Recorded(last_prices_, b, i))
                 => allocation' = nullptr
           /\ allocation' # nullptr <=> S # {}
           /\ S # {} =>
                 LET k == SetMax(S)
                 IN  /\ Len(allocation'.positions) = 1
                     /\ allocation'.positions[1].instrument_id = b[k].instrument_id
                     /\ allocation'.positions[1].quantity =
                            IF RGt(b[k].price, Recorded(last_prices_, b, k))
                            THEN R(1, 1) ELSE R(-1, 1)
                     /\ RGt(b[k].price, Recorded(last_prices_, b, k))
                            \/ RLt(b[k].price, Recorded(last_prices_, b, k))
           /\ DOMAIN last_prices_' = DOMAIN last_prices_ \cup ids
           /\ \A i \in 1..Len(b) :
                 (\A j \in (i + 1)..Len(b) : b[j].instrument_id # b[i].instrument_id)
                     => last_prices_'[b[i].instrument_id] = b[i].price
           /\ \A id \in DOMAIN last_prices_ \ ids :
                 last_prices_'[id] = last_prices_[id]
      ]_vars

\* a batch whose second update is a rise of instrument 1 and whose third, a
\* fall of instrument 2 from the price recorded by an earlier batch, is the
\* one the returned allocation is for
C33_Witness ==
    /\ batch = <<[instrument_id |-> 1, price |-> R(100, 1)],
                 [instrument_id |-> 1, price |-> R(201, 2)],
                 [instrument_id |-> 2, price |-> R(100, 1)]>>
    /\ allocation = Allocation("dummy_strategy", 0,
                               <<[instrument_id |-> 2, quantity |-> R(-1, 1)]>>)
    /\ last_prices_ = Put(Put(EmptyMap, 1, R(201, 2)), 2, R(100, 1))

====
